---- MODULE Spec2Model ----
(***************************************************************************)
(* Model of programs/performance/bench_event.c (EM-ODP event API           *)
(* micro-benchmark): the main thread, the benchmark worker run_benchmarks  *)
(* with its indefinite mode run_indef, the SIGINT handler, and the         *)
(* test-event provisioning loops allocate_test_events and                  *)
(* allocate_test_ext_pktevents.                                            *)
(***************************************************************************)
EXTENDS Integers, Sequences, FiniteSets, TLC

(***************************************************************************)
(* Program constants                                                       *)
(***************************************************************************)
REPEAT_COUNT == 1000
MAX_BURST == 64
BURST_SIZE == 8
MAX_RETRY == 1024
EXIT_SUCCESS == 0
EXIT_FAILURE == 1
\* exit status of a process killed by abort() (128 + SIGABRT)
ABORT_STATUS == 134

(***************************************************************************)
(* Bounds of the model                                                     *)
(***************************************************************************)
\* number of cases in the registry (num_bench)
NumBench == 2
\* largest configured round count (opt.rounds)
MaxRounds == 2
\* largest per-case round limit (bench_info_t.max_rounds)
MaxCap == 1
\* largest number of iterations of the indefinite loop that is explored
MaxIndef == 3
\* largest number of test events requested from the provisioning loop when
\* the allocator is unconstrained
MaxNum == 3
\* largest per-call cost factor: one run costs REPEAT_COUNT * c, c in 1..MaxCost
MaxCost == 2

(***************************************************************************)
(* Inputs                                                                  *)
(***************************************************************************)
\* values a bench run function may return (int)
RetSet == {-1, 0, 1}
\* number of test events of the burst cases for burst size 5
\* (REPEAT_COUNT * burst_size, lines 499, 515, 531)
ClaimCount == REPEAT_COUNT * 5
\* elapsed cycles / nanoseconds of one run invocation
ElapsedSet == {REPEAT_COUNT * c : c \in 1..MaxCost}
\* a case of the registry: round limit, and whether init / term are non-NULL
CaseKinds == [max_rounds : 0..MaxCap, init : BOOLEAN, term : BOOLEAN]
\* the registries explored: any round limit per case, and the same choice of
\* init / term for all the cases of a registry
Registries ==
    {[k \in 1..NumBench |-> [max_rounds |-> caps[k], init |-> f[1], term |-> f[2]]] :
        caps \in [1..NumBench -> 0..MaxCap], f \in BOOLEAN \X BOOLEAN}
\* the option values given on the command line (valid and invalid ones)
BurstSet == {0, BURST_SIZE, MAX_BURST + 1}
RoundsSet == 0..MaxRounds
IdxSet == (0 - 1)..(NumBench + 1)

VARIABLES
    \* ---- configuration (written once) ----
    opt,            \* gbl_args->opt: [rounds, bench_idx, burst_size]
    bench,          \* gbl_args->bench: sequence of CaseKinds (1-based here)
    costs,          \* the durations the time source may show for a run
    \* ---- main thread ----
    mpc,            \* position of main
    gbl_set,        \* gbl_args != NULL
    mret,           \* main's local ret
    exit_status,    \* process exit status, -1 while the process runs
    unsched_queue,  \* TRUE when the unscheduled queue exists
    pools,          \* set of created pools
    core_inited,    \* worker's EM core initialised and not terminated
    \* ---- shared ----
    exit_thread,    \* gbl_args->exit_thread
    bench_failed,   \* gbl_args->bench_failed
    \* ---- worker (run_benchmarks / run_indef) ----
    wpc,            \* position of the worker
    i, j, round, total, max_rounds,
    ret,            \* run_benchmarks' function-scope ret (line 304)
    ret_run,        \* the loop-scope ret (line 327) / run_indef's ret
    elapsed,        \* c2 - c1 (or t2 - t1) of the latest run
    wret,           \* value returned by the worker thread
    header,         \* header line printed
    reports,        \* report lines printed, in order; flag is the cancellation
                    \* flag at the time of the printf (history)
    \* ---- history ----
    calls,          \* calls[<<pass, case>>]: numbers of init/run/term invocations
    acc,            \* rounds accumulated into total for the current case
    acc_set,        \* elapsed values accumulated into total for the current case
    rets,           \* values returned by run so far
    cancel_seen,    \* a poll of the worker has found exit_thread set
    requested,      \* a SIGINT has been delivered
    completed,      \* completed[<<pass, case>>]: times the case reached its round limit
    indef_polls,    \* polls of run_indef made while exit_thread was not set
    \* ---- allocate_test_events / allocate_test_ext_pktevents ----
    apc,            \* position in the provisioning function
    afn,            \* which of the two functions runs
    alloc_mode,     \* behaviour of the underlying allocator
    num,            \* parameter num
    num_events,     \* local num_events
    num_retries,    \* local num_retries
    last_req,       \* history: size asked for in the latest allocator call
    last_ret,       \* history: result of the latest allocator call
    streak,         \* history: number of consecutive latest calls with result last_ret
    cpc,            \* round-limit computation: position
    opt_rounds,     \* args->opt.rounds as read at line 330
    case_max,       \* bench->max_rounds as read at line 332
    limit,          \* the local max_rounds after line 333
    fpc,            \* free_event_tbl: position
    event_tbl,      \* event_tbl[], entry k of the model is event_tbl[k - 1]
    tbl_num,        \* parameter num
    fi,             \* loop index i of free_event_tbl
    freed,          \* history: em_free() calls made per entry
    fcalls,         \* history: completed free_event_tbl calls
    tbl0,           \* history: the table before the first call
    dpc,            \* divisor computation: position
    rounds32,       \* args->opt.rounds, a uint32_t held as <<high, low>> halves
    cap32,          \* bench->max_rounds, likewise
    div32,          \* max_rounds * REPEAT_COUNT of line 382, likewise
    bpc,            \* burst case: position
    bi,             \* loop index i of a *_multi run function
    blo,            \* history: lowest table index of the latest access
    bhi             \* history: highest table index of the latest access

vars == <<opt, bench, costs, mpc, gbl_set, mret, exit_status, unsched_queue, pools,
          core_inited, exit_thread, bench_failed, wpc, i, j, round, total,
          max_rounds, ret, ret_run, elapsed, wret, header, reports, calls,
          acc, acc_set, rets, cancel_seen, requested, completed,
          indef_polls, apc, afn, alloc_mode,
          num, num_events, num_retries, last_req, last_ret, streak,
          cpc, opt_rounds, case_max, limit, fpc, event_tbl, tbl_num, fi,
          freed, fcalls, tbl0, dpc, rounds32, cap32, div32, bpc, bi, blo,
          bhi>>

ceilVars == <<cpc, opt_rounds, case_max, limit>>
freeVars == <<fpc, event_tbl, tbl_num, fi, freed, fcalls, tbl0>>
divVars == <<dpc, rounds32, cap32, div32>>
burstVars == <<bpc, bi, blo, bhi>>
unitVars == <<ceilVars, freeVars, divVars, burstVars>>
allocVars == <<apc, afn, alloc_mode, num, num_events, num_retries, last_req,
               last_ret, streak>>
driverVars == <<opt, bench, costs, mpc, gbl_set, mret, exit_status, unsched_queue,
                pools, core_inited, exit_thread, bench_failed, wpc, i, j,
                round, total, max_rounds, ret, ret_run, elapsed, wret, header,
                reports, calls, acc, acc_set, rets, cancel_seen, requested,
                completed, indef_polls>>
cfgVars == <<opt, bench, costs>>
mainVars == <<mpc, gbl_set, mret, exit_status, unsched_queue>>
loopVars == <<i, j, round, total, max_rounds, ret, ret_run, elapsed>>
histVars == <<calls, acc, acc_set, rets>>
progVars == <<completed, indef_polls>>

num_bench == Len(bench)
AllPools == {"sw_event_pool", "packet_pool", "vector_pool"}
NoCalls == [init |-> 0, run |-> 0, term |-> 0]

(***************************************************************************)
(* Pure helpers of run_benchmarks                                          *)
(***************************************************************************)
\* variant: a case's own limit is taken whenever it is set
EffectiveRounds_CapOnly(rounds, cap) ==
    IF cap # 0 THEN cap ELSE rounds

\* lines 330-333: the round limit of a case
EffectiveRounds(rounds, cap) ==
    IF cap # 0 /\ rounds > cap THEN cap ELSE rounds

\* variant: every result counts as a failure
RunFailed_Always(r) == TRUE

\* variant: only a negative result counts as a failure
RunFailed_Negative(r) == r < 0

\* lines 363 / 292: "if (!ret)"
RunFailed(r) == r = 0

\* variant: a single pass
MorePasses_Once(pass) == pass < 1

\* line 320: test of the pass loop
MorePasses(pass) == pass < 2

\* variant: the warm-up pass is reported as well
Reported_Always(pass) == TRUE

\* line 385: "No print from warm-up round"
Reported(pass) == pass > 0

\* variant: the index given on the command line is taken as 0-based
Selected_ZeroBased(case, idx) == case = idx

\* line 337: the case is the one selected with --index
Selected(case, idx) == (case + 1) = idx

\* variant: the case index wraps around at the end of the registry
NextCase_Wrap(case, n) == (case + 1) % n

\* lines 338 / 394: j++
NextCase(case, n) == case + 1

\* variant: term is never called
HasTerm_Never(b) == FALSE

\* lines 370 / 289: "if (bench->term)"
HasTerm(b) == b.term

\* lines 348 / 284: "if (bench->init)"
HasInit(b) == b.init

\* variant: no round is the last one of its case
CaseDone_Never(rnd, maxr) == FALSE

\* variant: the running total is carried over to the next case
ResetTotal_Keep(t) == t

\* line 395: total = 0
ResetTotal(t) == 0

\* line 378: the case is finished after this round
CaseDone(rnd, maxr) == rnd >= maxr

\* lines 396 and 326: round after the loop body and the for-increment
NextRound(rnd, maxr) ==
    IF CaseDone(rnd, maxr) THEN 1 + 1 ELSE rnd + 1

\* line 382: max_rounds * REPEAT_COUNT; for the round limits of this model
\* (at most MaxRounds) the uint32_t product is exact
Divisor(maxr) == maxr * REPEAT_COUNT

\* variant: the poll never reports a request
PollExit_Never(flag) == [seen |-> FALSE, flag |-> flag]

\* variant: the poll consumes the request (test-and-clear)
PollExit_Clear(flag) == [seen |-> flag # 0, flag |-> 0]

\* lines 325 / 281: odp_atomic_load_u32(&gbl_args->exit_thread); seen is the
\* truth value of the load, flag the value the flag holds afterwards
PollExit(flag) == [seen |-> flag # 0, flag |-> flag]

\* lines 1638-1641
MainStatus(r) == IF r < 0 THEN EXIT_FAILURE ELSE EXIT_SUCCESS

\* variant: the burst size has no upper limit
ParseArgs_NoBurstMax(o, n) ==
    IF o.burst_size < 1 THEN "exit"
    ELSE IF o.rounds < 1 THEN "bad"
    ELSE IF o.bench_idx < 0 \/ o.bench_idx > n THEN "bad"
    ELSE "ok"

\* variant: the round count is not validated
ParseArgs_NoRounds(o, n) ==
    IF o.burst_size < 1 \/ o.burst_size > MAX_BURST THEN "exit"
    ELSE IF o.bench_idx < 0 \/ o.bench_idx > n THEN "bad"
    ELSE "ok"

\* lines 1404-1418: 0 accepted, -1 rejected, "exit" for exit(EXIT_FAILURE)
ParseArgs(o, n) ==
    IF o.burst_size < 1 \/ o.burst_size > MAX_BURST THEN "exit"
    ELSE IF o.rounds < 1 THEN "bad"
    ELSE IF o.bench_idx < 0 \/ o.bench_idx > n THEN "bad"
    ELSE "ok"

Bump(c, pass, case, f) ==
    [c EXCEPT ![<<pass, case>>] = [@ EXCEPT ![f] = @ + 1]]

(***************************************************************************)
(* Initial state: main has installed the signal handler (line 1533) and    *)
(* is about to reserve the shared memory for gbl_args.                     *)
(***************************************************************************)
DriverStart ==
    /\ mpc = "m_shm"
    /\ gbl_set = FALSE
    /\ mret = 0
    /\ exit_status = 0 - 1
    /\ unsched_queue = FALSE
    /\ pools = {}
    /\ core_inited = FALSE
    /\ exit_thread = 0
    /\ bench_failed = 0
    /\ wpc = "w_none"
    /\ i = 0 /\ j = 0 /\ round = 0 /\ total = 0 /\ max_rounds = 0
    /\ ret = 0 /\ ret_run = 0 /\ elapsed = 0
    /\ wret = 0
    /\ header = FALSE
    /\ reports = <<>>
    /\ calls = [p \in (0..1) \X (0..(NumBench - 1)) |-> NoCalls]
    /\ acc = 0
    /\ acc_set = {}
    /\ rets = {}
    /\ cancel_seen = FALSE
    /\ requested = FALSE
    /\ completed = [p \in (0..1) \X (0..(NumBench - 1)) |-> 0]
    /\ indef_polls = 0

\* no provisioning call is in progress
AllocIdle ==
    /\ apc = "a_idle"
    /\ afn = "none"
    /\ alloc_mode = "any"
    /\ num = 0 /\ num_events = 0 /\ num_retries = 0
    /\ last_req = 0 /\ last_ret = 0 /\ streak = 0

\* no divisor is being computed
DivIdle ==
    /\ dpc = "d_idle"
    /\ rounds32 = <<0, 1>> /\ cap32 = <<0, 0>> /\ div32 = <<0, 0>>

\* no burst case is being executed
BurstIdle ==
    /\ bpc = "b_idle"
    /\ bi = 0 /\ blo = 0 /\ bhi = 0

\* neither the round-limit computation nor a table release is in progress
UnitIdle ==
    /\ DivIdle
    /\ BurstIdle
    /\ cpc = "c_idle"
    /\ opt_rounds = 1 /\ case_max = 0 /\ limit = 0
    /\ fpc = "f_idle"
    /\ event_tbl = <<>> /\ tbl0 = <<>>
    /\ tbl_num = 0 /\ fi = 0
    /\ freed = <<>>
    /\ fcalls = 0

\* any command line and any registry
InitCfg ==
    /\ UnitIdle
    /\ opt \in [rounds : RoundsSet, bench_idx : IdxSet, burst_size : BurstSet]
    /\ bench \in Registries
    /\ DriverStart
    /\ AllocIdle

Init ==
    /\ InitCfg
    /\ costs = ElapsedSet

\* the executions in which every run takes the same time
InitFair ==
    /\ InitCfg
    /\ costs = {REPEAT_COUNT}

(***************************************************************************)
(* SIGINT handler (lines 150-155)                                          *)
(***************************************************************************)
SigHandler ==
    /\ exit_status = 0 - 1
    /\ requested' = TRUE
    /\ exit_thread' = IF gbl_set THEN 1 ELSE exit_thread
    /\ UNCHANGED <<unitVars, allocVars, cfgVars, progVars, mainVars, pools, core_inited, bench_failed, wpc,
                   loopVars, wret, header, reports, histVars, cancel_seen>>

(***************************************************************************)
(* main (lines 1460-1641)                                                  *)
(***************************************************************************)
\* lines 1539-1549: gbl_args = odp_shm_addr(shm)
MainShmReserve ==
    /\ mpc = "m_shm"
    /\ gbl_set' = TRUE
    /\ mpc' = "m_memset"
    /\ UNCHANGED <<unitVars, allocVars, cfgVars, progVars, mret, exit_status, unsched_queue, pools,
                   core_inited, exit_thread, bench_failed, wpc, loopVars,
                   wret, header, reports, histVars, cancel_seen, requested>>

\* lines 1551-1569: memset and initialisation of gbl_args
MainInitArgs ==
    /\ mpc = "m_memset"
    /\ exit_thread' = 0
    /\ bench_failed' = 0
    /\ pools' = {}
    /\ unsched_queue' = FALSE
    /\ mpc' = "m_parse"
    /\ UNCHANGED <<unitVars, allocVars, cfgVars, progVars, gbl_set, mret, exit_status, core_inited, wpc,
                   loopVars, wret, header, reports, histVars, cancel_seen,
                   requested>>

\* lines 1572-1574 with parse_args' validation (lines 1404-1418)
MainParseArgs ==
    /\ mpc = "m_parse"
    /\ LET r == ParseArgs(opt, num_bench) IN
         /\ mret' = IF r = "bad" THEN 0 - 1 ELSE 0
         /\ mpc' = IF r = "exit" THEN "m_done"
                   ELSE IF r = "bad" THEN "m_exit" ELSE "m_queues"
         /\ exit_status' = IF r = "exit" THEN EXIT_FAILURE ELSE exit_status
    /\ UNCHANGED <<unitVars, allocVars, cfgVars, progVars, gbl_set, unsched_queue, pools, core_inited,
                   exit_thread, bench_failed, wpc, loopVars, wret, header,
                   reports, histVars, cancel_seen, requested>>

\* lines 1581-1582 with create_queues (lines 223-243); ok is the outcome of
\* em_queue_create
MainCreateQueues ==
    /\ mpc = "m_queues"
    /\ \E ok \in BOOLEAN :
         /\ unsched_queue' = ok
         /\ mpc' = IF ok THEN "m_thread" ELSE "m_exit"
    /\ UNCHANGED <<unitVars, allocVars, cfgVars, progVars, gbl_set, mret, exit_status, pools, core_inited,
                   exit_thread, bench_failed, wpc, loopVars, wret, header,
                   reports, histVars, cancel_seen, requested>>

\* lines 1584-1598: the worker thread is created
MainThreadCreate ==
    /\ mpc = "m_thread"
    /\ wpc' = "w_init_core"
    /\ mpc' = "m_join"
    /\ UNCHANGED <<unitVars, allocVars, cfgVars, progVars, gbl_set, mret, exit_status, unsched_queue, pools,
                   core_inited, exit_thread, bench_failed, loopVars, wret,
                   header, reports, histVars, cancel_seen, requested>>

\* lines 1600-1602: join, then ret = gbl_args->bench_failed
MainJoin ==
    /\ mpc = "m_join"
    /\ wpc = "w_returned"
    /\ mret' = bench_failed
    /\ mpc' = "m_exit"
    /\ UNCHANGED <<unitVars, allocVars, cfgVars, progVars, gbl_set, exit_status, unsched_queue, pools,
                   core_inited, exit_thread, bench_failed, wpc, loopVars,
                   wret, header, reports, histVars, cancel_seen, requested>>

\* lines 1604-1641: teardown; term_ok is the outcome of odp_shm_free,
\* odp_term_local and odp_term_global
MainExit ==
    /\ mpc = "m_exit"
    /\ pools' = {}
    /\ unsched_queue' = FALSE
    /\ \E term_ok \in BOOLEAN :
         exit_status' = IF term_ok THEN MainStatus(mret) ELSE EXIT_FAILURE
    /\ mpc' = "m_done"
    /\ UNCHANGED <<unitVars, allocVars, cfgVars, progVars, gbl_set, mret, core_inited, exit_thread,
                   bench_failed, wpc, loopVars, wret, header, reports,
                   histVars, cancel_seen, requested>>

(***************************************************************************)
(* run_benchmarks (lines 297-406)                                          *)
(***************************************************************************)
\* lines 306-310: em_init_core; ok is its outcome
WorkerInitCore ==
    /\ wpc = "w_init_core"
    /\ \E ok \in BOOLEAN :
         /\ core_inited' = ok
         /\ wpc' = IF ok THEN "w_pools" ELSE "w_returned"
         /\ wret' = IF ok THEN wret ELSE 0 - 1
    /\ UNCHANGED <<unitVars, allocVars, cfgVars, progVars, mainVars, pools, exit_thread, bench_failed,
                   loopVars, header, reports, histVars, cancel_seen,
                   requested>>

\* lines 312-320: create_pools (lines 176-221), the header, and i = 0;
\* created is the number of pools em_pool_create delivered before failing
WorkerCreatePools ==
    /\ wpc = "w_pools"
    /\ \E created \in 0..3 :
         /\ pools' = IF created = 0 THEN {}
                     ELSE IF created = 1 THEN {"sw_event_pool"}
                     ELSE IF created = 2 THEN {"sw_event_pool", "packet_pool"}
                     ELSE AllPools
         /\ IF created = 3
            THEN /\ header' = TRUE
                 /\ i' = 0
                 /\ wpc' = "w_pass"
                 /\ wret' = wret
            ELSE /\ header' = header
                 /\ i' = i
                 /\ wpc' = "w_returned"
                 /\ wret' = 0 - 1
    /\ UNCHANGED <<unitVars, allocVars, cfgVars, progVars, mainVars, core_inited, exit_thread, bench_failed,
                   j, round, total, max_rounds, ret, ret_run, elapsed,
                   reports, histVars, cancel_seen, requested>>

\* lines 320-324: test of the pass loop, the pass-scope locals and j = 0
WorkerPassLoop ==
    /\ wpc = "w_pass"
    /\ IF MorePasses(i)
       THEN /\ total' = 0
            /\ round' = 1
            /\ j' = 0
            /\ acc' = 0
            /\ acc_set' = {}
            /\ wpc' = "w_case"
       ELSE /\ UNCHANGED <<total, round, j, acc, acc_set>>
            /\ wpc' = "w_exit"
    /\ UNCHANGED <<unitVars, allocVars, cfgVars, progVars, mainVars, pools, core_inited, exit_thread,
                   bench_failed, i, max_rounds, ret, ret_run, elapsed, wret,
                   header, reports, calls, rets, cancel_seen, requested>>

\* lines 324-346: test of the case loop (with the poll of exit_thread), the
\* round limit of the case and the selection of the indefinite mode
WorkerCaseLoop ==
    /\ wpc = "w_case"
    /\ LET poll == PollExit(exit_thread) IN
       /\ exit_thread' = IF j < num_bench THEN poll.flag ELSE exit_thread
       /\ IF j < num_bench /\ ~poll.seen
          THEN /\ max_rounds' = EffectiveRounds(opt.rounds,
                                                bench[j + 1].max_rounds)
               /\ cancel_seen' = cancel_seen
               /\ i' = i
               /\ IF opt.bench_idx # 0
                  THEN IF ~Selected(j, opt.bench_idx)
                       THEN /\ j' = NextCase(j, num_bench)
                            /\ round' = round + 1
                            /\ wpc' = "w_case"
                       ELSE /\ UNCHANGED <<j, round>>
                            /\ wpc' = "i_poll"
                  ELSE /\ UNCHANGED <<j, round>>
                       /\ wpc' = "w_init"
          ELSE /\ cancel_seen' = (cancel_seen \/ (j < num_bench /\ poll.seen))
               /\ i' = i + 1
               /\ wpc' = "w_pass"
               /\ UNCHANGED <<j, round, max_rounds>>
    /\ UNCHANGED <<unitVars, allocVars, cfgVars, progVars, mainVars, pools, core_inited,
                   bench_failed, total, ret, ret_run, elapsed, wret, header,
                   reports, histVars, requested>>

\* lines 348-349: bench->init()
WorkerBenchInit ==
    /\ wpc = "w_init"
    /\ calls' = IF HasInit(bench[j + 1]) THEN Bump(calls, i, j, "init") ELSE calls
    /\ wpc' = "w_run"
    /\ UNCHANGED <<unitVars, allocVars, cfgVars, progVars, mainVars, pools, core_inited, exit_thread,
                   bench_failed, loopVars, wret, header, reports, acc,
                   acc_set, rets, cancel_seen, requested>>

\* lines 351-368: the timed bench->run() and the test of its result
WorkerBenchRun ==
    /\ wpc = "w_run"
    /\ \E r \in RetSet, e \in costs :
         /\ elapsed' = e
         /\ rets' = rets \cup {r}
         /\ IF RunFailed(r)
            THEN /\ bench_failed' = 0 - 1
                 /\ ret_run' = 0 - 1
                 /\ wpc' = "w_exit"
            ELSE /\ bench_failed' = bench_failed
                 /\ ret_run' = r
                 /\ wpc' = "w_term"
    /\ calls' = Bump(calls, i, j, "run")
    /\ UNCHANGED <<unitVars, allocVars, cfgVars, progVars, mainVars, pools, core_inited, exit_thread,
                   i, j, round, total, max_rounds, ret, wret, header, reports,
                   acc, acc_set, cancel_seen, requested>>

\* lines 370-397 and the round++ of line 326: bench->term(), accumulation,
\* and the end of the case when the round limit is reached
WorkerBenchTerm ==
    /\ wpc = "w_term"
    /\ calls' = IF HasTerm(bench[j + 1]) THEN Bump(calls, i, j, "term") ELSE calls
    /\ IF CaseDone(round, max_rounds)
       THEN /\ reports' = IF Reported(i)
                          THEN Append(reports,
                                      [idx |-> j + 1,
                                       total |-> total + elapsed,
                                       divisor |-> Divisor(max_rounds),
                                       acc |-> acc + 1,
                                       acc_set |-> acc_set \cup {elapsed},
                                       flag |-> exit_thread])
                          ELSE reports
            /\ j' = NextCase(j, num_bench)
            /\ completed' = [completed EXCEPT ![<<i, j>>] = @ + 1]
            /\ total' = ResetTotal(total + elapsed)
            /\ acc' = 0
            /\ acc_set' = {}
       ELSE /\ reports' = reports
            /\ completed' = completed
            /\ j' = j
            /\ total' = total + elapsed
            /\ acc' = acc + 1
            /\ acc_set' = acc_set \cup {elapsed}
    /\ round' = NextRound(round, max_rounds)
    /\ wpc' = "w_case"
    /\ UNCHANGED <<unitVars, allocVars, cfgVars, indef_polls, mainVars, pools, core_inited, exit_thread,
                   bench_failed, i, max_rounds, ret, ret_run, elapsed, wret,
                   header, rets, cancel_seen, requested>>

\* lines 401-405: em_term_core and "return ret" of the function-scope ret
WorkerExit ==
    /\ wpc = "w_exit"
    /\ core_inited' = FALSE
    /\ wret' = ret
    /\ wpc' = "w_returned"
    /\ UNCHANGED <<unitVars, allocVars, cfgVars, progVars, mainVars, pools, exit_thread, bench_failed,
                   loopVars, header, reports, histVars, cancel_seen,
                   requested>>

(***************************************************************************)
(* run_indef (lines 272-295), entered from line 342 with idx = j           *)
(***************************************************************************)
\* line 281: poll of exit_thread; line 343: goto exit
IndefPoll ==
    /\ wpc = "i_poll"
    /\ indef_polls' = IF exit_thread = 0 THEN indef_polls + 1 ELSE indef_polls
    /\ LET poll == PollExit(exit_thread) IN
       /\ exit_thread' = poll.flag
       /\ IF ~poll.seen
          THEN /\ calls[<<i, j>>].run < MaxIndef
               /\ wpc' = "i_init"
               /\ cancel_seen' = cancel_seen
          ELSE /\ wpc' = "w_exit"
               /\ cancel_seen' = TRUE
    /\ UNCHANGED <<unitVars, allocVars, cfgVars, completed, mainVars, pools, core_inited,
                   bench_failed, loopVars, wret, header, reports, histVars,
                   requested>>

\* lines 284-285
IndefInit ==
    /\ wpc = "i_init"
    /\ calls' = IF HasInit(bench[j + 1]) THEN Bump(calls, i, j, "init") ELSE calls
    /\ wpc' = "i_run"
    /\ UNCHANGED <<unitVars, allocVars, cfgVars, progVars, mainVars, pools, core_inited, exit_thread,
                   bench_failed, loopVars, wret, header, reports, acc,
                   acc_set, rets, cancel_seen, requested>>

\* line 287
IndefRun ==
    /\ wpc = "i_run"
    /\ \E r \in RetSet :
         /\ ret_run' = r
         /\ rets' = rets \cup {r}
    /\ calls' = Bump(calls, i, j, "run")
    /\ wpc' = "i_term"
    /\ UNCHANGED <<unitVars, allocVars, cfgVars, progVars, mainVars, pools, core_inited, exit_thread,
                   bench_failed, i, j, round, total, max_rounds, ret, elapsed,
                   wret, header, reports, acc, acc_set, cancel_seen,
                   requested>>

\* lines 289-293: bench->term(), then ODPH_ABORT when run failed
IndefTerm ==
    /\ wpc = "i_term"
    /\ calls' = IF HasTerm(bench[j + 1]) THEN Bump(calls, i, j, "term") ELSE calls
    /\ IF RunFailed(ret_run)
       THEN /\ wpc' = "w_aborted"
            /\ mpc' = "m_aborted"
            /\ exit_status' = ABORT_STATUS
       ELSE /\ wpc' = "i_poll"
            /\ UNCHANGED <<mpc, exit_status>>
    /\ UNCHANGED <<unitVars, allocVars, cfgVars, progVars, gbl_set, mret, unsched_queue, pools, core_inited,
                   exit_thread, bench_failed, loopVars, wret, header, reports,
                   acc, acc_set, rets, cancel_seen, requested>>

Next ==
    \/ SigHandler
    \/ MainShmReserve
    \/ MainInitArgs
    \/ MainParseArgs
    \/ MainCreateQueues
    \/ MainThreadCreate
    \/ MainJoin
    \/ MainExit
    \/ WorkerInitCore
    \/ WorkerCreatePools
    \/ WorkerPassLoop
    \/ WorkerCaseLoop
    \/ WorkerBenchInit
    \/ WorkerBenchRun
    \/ WorkerBenchTerm
    \/ WorkerExit
    \/ IndefPoll
    \/ IndefInit
    \/ IndefRun
    \/ IndefTerm

Spec == Init /\ [][Next]_vars

\* the steps of the worker thread (run_benchmarks and run_indef)
Worker ==
    \/ WorkerInitCore
    \/ WorkerCreatePools
    \/ WorkerPassLoop
    \/ WorkerCaseLoop
    \/ WorkerBenchInit
    \/ WorkerBenchRun
    \/ WorkerBenchTerm
    \/ WorkerExit
    \/ IndefPoll
    \/ IndefInit
    \/ IndefRun
    \/ IndefTerm

\* the steps of main
Main ==
    \/ MainShmReserve
    \/ MainInitArgs
    \/ MainParseArgs
    \/ MainCreateQueues
    \/ MainThreadCreate
    \/ MainJoin
    \/ MainExit

\* both threads keep running: every call they make returns.  The time a run
\* takes is read by no test of the driver, so that the executions in which
\* every run takes the same time show every control path.
FairSpec ==
    InitFair /\ [][Next]_vars /\ WF_vars(Worker) /\ WF_vars(Main)

TypeOK ==
    /\ bench \in [1..NumBench -> CaseKinds]
    /\ exit_thread \in {0, 1}
    /\ bench_failed \in {0 - 1, 0}
    /\ i \in 0..2
    /\ j \in 0..NumBench
    /\ ret = 0

(***************************************************************************)
(* allocate_test_events (lines 421-442) and allocate_test_ext_pktevents    *)
(* (lines 445-481)                                                         *)
(***************************************************************************)
\* results of em_alloc_multi / odp_packet_alloc_multi asked for want events:
\* an allocator that hands out exactly one event per call, or any allocator
\* that returns an error or at most what was asked for
AllocResults(mode, want) ==
    IF mode = "ones" THEN {1} ELSE (0 - 1)..want

\* variant: every call asks for the whole table
Request_Whole(n, got) == n

\* lines 431-432 / 465-466: the number of events asked for
Request(n, got) == n - got

\* variant: a single event counts as an empty return
NoYield_AtMostOne(r) == r <= 1

\* lines 433 / 467: the call delivered nothing
NoYield(r) == r < 1

\* variant: only an allocator error aborts
AllocAbort_ErrorOnly(r, retries) == r < 0

\* variant: only the retry ceiling aborts
AllocAbort_CeilingOnly(r, retries) == retries > MAX_RETRY

\* lines 435 / 469, evaluated after num_retries++
AllocAbort(r, retries) == r < 0 \/ retries > MAX_RETRY

\* variant: the retry counter is not reset
RetriesAfterYield_Keep(retries) == retries

\* lines 439 / 476: the retry counter after a call that delivered events
RetriesAfterYield(retries) == 0

\* one iteration of the while loop (lines 429-441 / 465-478)
LoopBody(r) ==
    /\ last_req' = Request(num, num_events)
    /\ last_ret' = r
    /\ streak' = IF streak > 0 /\ last_ret = r THEN streak + 1 ELSE 1
    /\ IF NoYield(r)
       THEN /\ num_retries' = num_retries + 1
            /\ num_events' = num_events
            /\ apc' = IF AllocAbort(r, num_retries + 1)
                      THEN "a_aborted" ELSE "a_loop"
       ELSE /\ num_retries' = RetriesAfterYield(num_retries)
            /\ num_events' = num_events + r
            /\ apc' = "a_loop"

\* lines 423-426
AllocEnter ==
    /\ apc = "a_start"
    /\ afn = "allocate_test_events"
    /\ num_events' = 0
    /\ num_retries' = 0
    /\ apc' = "a_loop"
    /\ UNCHANGED <<unitVars, driverVars, afn, alloc_mode, num, last_req, last_ret,
                   streak>>

\* lines 428-441
AllocIter ==
    /\ apc = "a_loop"
    /\ afn = "allocate_test_events"
    /\ num_events < num
    /\ \E r \in AllocResults(alloc_mode, Request(num, num_events)) :
         LoopBody(r)
    /\ UNCHANGED <<unitVars, driverVars, afn, alloc_mode, num>>

\* lines 428 and 442: the loop ends and the function returns
AllocReturn ==
    /\ apc = "a_loop"
    /\ afn = "allocate_test_events"
    /\ ~(num_events < num)
    /\ apc' = "a_returned"
    /\ UNCHANGED <<unitVars, driverVars, afn, alloc_mode, num, num_events, num_retries,
                   last_req, last_ret, streak>>

\* lines 448-462: type_ok is "type == EM_EVENT_TYPE_PACKET", pool_ok the
\* outcome of em_odp_pool2odp
AllocExtEnter ==
    /\ apc = "a_start"
    /\ afn = "allocate_test_ext_pktevents"
    /\ num_events' = 0
    /\ num_retries' = 0
    /\ \E type_ok \in BOOLEAN, pool_ok \in BOOLEAN :
         apc' = IF type_ok /\ pool_ok THEN "a_loop" ELSE "a_aborted"
    /\ UNCHANGED <<unitVars, driverVars, afn, alloc_mode, num, last_req, last_ret,
                   streak>>

\* lines 464-478
AllocExtIter ==
    /\ apc = "a_loop"
    /\ afn = "allocate_test_ext_pktevents"
    /\ num_events < num
    /\ \E r \in AllocResults(alloc_mode, Request(num, num_events)) :
         LoopBody(r)
    /\ UNCHANGED <<unitVars, driverVars, afn, alloc_mode, num>>

\* lines 464 and 480-481
AllocExtReturn ==
    /\ apc = "a_loop"
    /\ afn = "allocate_test_ext_pktevents"
    /\ ~(num_events < num)
    /\ apc' = "a_returned"
    /\ UNCHANGED <<unitVars, driverVars, afn, alloc_mode, num, num_events, num_retries,
                   last_req, last_ret, streak>>

\* a provisioning call made from a case's init function (lines 483-536),
\* the driver being at rest
InitAlloc ==
    /\ opt = [rounds |-> 1, bench_idx |-> 0, burst_size |-> BURST_SIZE]
    /\ costs = ElapsedSet
    /\ bench = [k \in 1..NumBench |->
                   [max_rounds |-> 0, init |-> TRUE, term |-> TRUE]]
    /\ DriverStart
    /\ UnitIdle
    /\ apc = "a_start"
    /\ afn \in {"allocate_test_events", "allocate_test_ext_pktevents"}
    /\ \/ alloc_mode = "any" /\ num \in 1..MaxNum
       \/ alloc_mode = "ones" /\ num \in {1, ClaimCount}
    /\ num_events = 0 /\ num_retries = 0
    /\ last_req = 0 /\ last_ret = 0 /\ streak = 0

NextAlloc ==
    \/ AllocEnter
    \/ AllocIter
    \/ AllocReturn
    \/ AllocExtEnter
    \/ AllocExtIter
    \/ AllocExtReturn

SpecAlloc == InitAlloc /\ [][NextAlloc]_vars

\* the thread that called the provisioning function keeps executing it
FairSpecAlloc == SpecAlloc /\ WF_vars(NextAlloc)

TypeOKAlloc ==
    /\ num_events \in 0..num
    /\ num_retries \in 0..(MAX_RETRY + 1)

(***************************************************************************)
(* Properties of the benchmark driver (specification Spec)                 *)
(***************************************************************************)
Passes == 0..1
Cases == 0..(NumBench - 1)
Ceiling(k) == EffectiveRounds(opt.rounds, bench[k + 1].max_rounds)
NormalMode == opt.bench_idx = 0
\* both passes ran to their end
PassesComplete == wpc = "w_returned" /\ i = 2
NoCallsMade == \A p \in Passes, k \in Cases : calls[<<p, k>>] = NoCalls

\* C1: in normal mode, when cancellation is never requested and every run
\* succeeds, every case of the registry has executed exactly its effective
\* round ceiling of rounds in each of the two passes once the passes are over.
C1_EveryCaseRunsCeiling ==
    (NormalMode /\ PassesComplete /\ ~requested /\ rets \subseteq {1})
        => \A p \in Passes, k \in Cases : calls[<<p, k>>].run = Ceiling(k)

\* C2: for every report line (of an execution in which every run succeeds)
\* the divisor of the average is the number of rounds accumulated into the
\* total times REPEAT_COUNT, so that a case whose every run costs
\* REPEAT_COUNT * c is reported with the average c.
C2_DivisorCountsAccumulatedRounds ==
    rets \subseteq {1} =>
        \A n \in 1..Len(reports) :
            /\ reports[n].divisor = reports[n].acc * REPEAT_COUNT
            /\ \A c \in 1..MaxCost :
                   reports[n].acc_set = {REPEAT_COUNT * c}
                       => reports[n].total = c * reports[n].divisor

\* a run of the normal mode has returned the failure result 0
RunFailedNormal == NormalMode /\ 0 \in rets

C3_State ==
    RunFailedNormal =>
        /\ bench_failed = 0 - 1
        /\ wpc \in {"w_exit", "w_returned"}
        /\ (i = 0 => reports = <<>>)
        /\ (mpc = "m_done" => exit_status \notin {0 - 1, EXIT_SUCCESS})

C3_Step == RunFailedNormal => (calls' = calls /\ reports' = reports)

\* C3: in normal mode, once a run has returned the failure result, no init,
\* run or term is invoked any more and no report line is emitted any more
\* (none exists when the failure happened in the warm-up pass), bench_failed
\* records the failure and the process exit status is non-zero.
C3_FailureAbortsExecution == []C3_State /\ [][C3_Step]_vars

C3_Witness ==
    /\ RunFailedNormal
    /\ i = 1
    /\ reports # <<>>
    /\ mpc = "m_done"
    /\ exit_status = EXIT_FAILURE

\* C4: a negative result of run is a failure like the result 0: in normal
\* mode it is recorded in bench_failed and stops the worker, in indefinite
\* mode it ends in the fatal abort after the iteration's term.
C4_NegativeResultIsFailure ==
    (\E r \in rets : r < 0) =>
        IF NormalMode
        THEN bench_failed = 0 - 1 /\ wpc \in {"w_exit", "w_returned"}
        ELSE wpc \in {"i_term", "w_aborted"}

\* creation of the queue, EM core init or pool creation has failed
SetupFailed ==
    \/ wret = 0 - 1
    \/ /\ ParseArgs(opt, num_bench) = "ok"
       /\ wpc = "w_none"
       /\ mpc \in {"m_exit", "m_done"}

\* C5: when the environment setup fails, no case is executed and the process
\* exit status is non-zero.
C5_SetupFailureExitsNonZero ==
    SetupFailed =>
        /\ NoCallsMade
        /\ (mpc = "m_done" => exit_status \notin {0 - 1, EXIT_SUCCESS})

\* C6: in normal mode, once a poll of the worker has found the cancellation
\* flag set, no init, run or term of any case is invoked any more, in either
\* pass, and no report line is emitted any more.
C6_NothingRunsAfterCancelSeen ==
    [][(NormalMode /\ cancel_seen) => (calls' = calls /\ reports' = reports)]_vars

\* cancellation was seen during the warm-up pass after some rounds, and the
\* worker went through the measured pass without executing anything
C6_Witness ==
    /\ NormalMode
    /\ cancel_seen
    /\ PassesComplete
    /\ calls[<<0, 0>>].run > 0
    /\ \A k \in Cases : calls[<<1, k>>] = NoCalls
    /\ reports = <<>>

(***************************************************************************)
(* Properties of the provisioning loop (specification SpecAlloc)           *)
(***************************************************************************)
\* the allocator hands out one event per call and ClaimCount are asked for
OnesScenario == alloc_mode = "ones" /\ num = ClaimCount
\* the step is an iteration of the while loop
IterStep == apc = "a_loop" /\ num_events < num

\* C7 as stated: with ClaimCount events asked for and an allocator that
\* returns exactly one event per call, the loop has aborted after MAX_RETRY
\* consecutive single-event returns.
C7_AbortsAfterCeilingOfSingles ==
    (OnesScenario /\ last_ret = 1 /\ streak >= MAX_RETRY) => apc = "a_aborted"

\* C7 amended: with ClaimCount events asked for and an allocator that returns
\* exactly one event per call, the retry counter stays 0, no allocator call
\* leads to an abort, each call adds one event, and the function returns
\* after exactly ClaimCount calls with ClaimCount events.
C7_SinglesNeverAbort ==
    OnesScenario =>
        /\ num_retries = 0
        /\ streak <= ClaimCount
        /\ (streak > 0 => apc # "a_aborted" /\ num_events = streak)
        /\ (apc = "a_returned" => streak = ClaimCount /\ num_events = ClaimCount)

C7_Witness == OnesScenario /\ apc = "a_returned" /\ streak = ClaimCount

\* C8: in an iteration of the provisioning loop an empty return increments
\* the retry counter and a return of at least one event resets it to zero;
\* an empty return aborts exactly when it is the (MAX_RETRY + 1)-th
\* consecutive one, and a positive return never aborts.
C8_RetryCounterAndCeiling ==
    [][IterStep =>
          /\ (last_ret' = 0 => num_retries' = num_retries + 1)
          /\ (last_ret' >= 1 => num_retries' = 0 /\ apc' = "a_loop")
          /\ (last_ret' = 0 =>
                 (apc' = "a_aborted" <=> streak' = MAX_RETRY + 1))]_vars

\* MAX_RETRY empty returns, then a positive one, then the abort on the
\* (MAX_RETRY + 1)-th consecutive empty return
C8_Witness ==
    /\ apc = "a_aborted"
    /\ last_ret = 0
    /\ streak = MAX_RETRY + 1
    /\ num_events > 0

\* C9: a negative return of the allocator aborts the provisioning loop on
\* that very call, whatever the retry counter and the number of events
\* already acquired, and no further allocation request is made.
C9_NegativeReturnAborts ==
    /\ []((streak > 0 /\ last_ret < 0) => (apc = "a_aborted" /\ streak = 1))
    /\ [][apc = "a_aborted" => UNCHANGED allocVars]_vars

C9_Witness ==
    /\ apc = "a_aborted"
    /\ last_ret < 0
    /\ num_events > 0
    /\ num_retries > 1
    /\ num_retries <= MAX_RETRY

\* C10: the number of events acquired never exceeds num, it equals num when
\* the function returns, and every allocator call asks for num minus the
\* number of events already acquired.
C10_ExactlyNumAcquired ==
    /\ [](num_events <= num /\ (apc = "a_returned" => num_events = num))
    /\ [][IterStep => last_req' = num - num_events]_vars

\* num events acquired in more than one batch
C10_Witness ==
    /\ apc = "a_returned"
    /\ alloc_mode = "any"
    /\ num = MaxNum
    /\ num_events = num
    /\ last_req < num

(***************************************************************************)
(* Further properties of the benchmark driver (specification Spec)         *)
(***************************************************************************)
Slots == Passes \X Cases
\* slot a comes before slot b: earlier pass, or same pass and earlier case
Before(a, b) == a[1] < b[1] \/ (a[1] = b[1] /\ a[2] < b[2])
\* the worker has returned from a normal-mode execution that was set up, in
\* which no poll saw a cancellation and every run succeeded
NormalRunOver ==
    /\ NormalMode
    /\ wpc = "w_returned"
    /\ header
    /\ ~cancel_seen
    /\ rets \subseteq {1}

\* C11: no report line exists while the warm-up pass runs; report lines come
\* after the header, the n-th line carries the case index n, and a normal-mode
\* execution without cancellation and failure ends with exactly one line per
\* case of the registry.
C11_ReportLines ==
    /\ (i = 0 => reports = <<>>)
    /\ (reports # <<>> => header)
    /\ \A n \in 1..Len(reports) : reports[n].idx = n
    /\ Len(reports) <= NumBench
    /\ (NormalRunOver => Len(reports) = NumBench)

C11_Witness == NormalRunOver /\ Len(reports) = NumBench /\ reports[NumBench].idx = NumBench

\* C12: in a normal-mode execution without cancellation and failure every
\* case is taken to the end of its rounds exactly once in the warm-up pass and
\* exactly once in the measured pass (2 * NumBench case executions), and no
\* case is ever completed twice in a pass.
C12_EachCaseOncePerPass ==
    /\ \A s \in Slots : completed[s] <= 1
    /\ (NormalRunOver => \A s \in Slots : completed[s] = 1)

C12_Witness == NormalRunOver /\ \A s \in Slots : completed[s] = 1 /\ calls[s].run >= 1

\* C13: in normal mode an init, run or term of a case in a pass is invoked
\* only while no later case of the pass and no case of the later pass has been
\* invoked at all: cases run in registry order without interleaving, and the
\* warm-up rounds all precede the measured rounds.
C13_RegistryOrder ==
    [][NormalMode =>
          \A s \in Slots :
              calls'[s] # calls[s] =>
                  \A t \in Slots : Before(s, t) => calls[t] = NoCalls]_vars

C13_Witness ==
    /\ NormalMode
    /\ wpc = "w_returned"
    /\ opt.rounds = MaxRounds
    /\ \A s \in Slots : calls[s].run >= 1

\* a valid single-case index was given
IndefMode == opt.bench_idx \in 1..NumBench /\ ParseArgs(opt, num_bench) = "ok"
\* the slot of the selected case
Sel == <<0, opt.bench_idx - 1>>
IndefPcs == {"i_poll", "i_init", "i_run", "i_term"}

\* C14: in indefinite mode the number of cycles started equals the number of
\* polls made while the cancellation flag was not set, a poll made while it
\* is set starts no cycle, and after such a poll nothing is invoked any more
\* (a request after the k-th cycle gives exactly k cycles).
C14_CyclesEqualClearPolls ==
    /\ [](IndefMode =>
            calls[Sel].run =
                indef_polls - (IF wpc \in {"i_init", "i_run"} THEN 1 ELSE 0))
    /\ [][(IndefMode /\ cancel_seen) => calls' = calls]_vars

\* three cycles, then the request, then the return
C14_Witness ==
    /\ IndefMode
    /\ cancel_seen
    /\ wpc = "w_returned"
    /\ calls[Sel].run = 3
    /\ indef_polls = 3

\* C15: with a single-case index only the selected case is ever invoked, no
\* report line is emitted, no case is completed, and the worker leaves the
\* indefinite loop only towards its exit point (or the fatal abort), from
\* where it returns without re-entering a loop.
C15_OnlySelectedCase ==
    /\ [](IndefMode =>
            /\ reports = <<>>
            /\ \A s \in Slots : completed[s] = 0
            /\ \A s \in Slots : s # Sel => calls[s] = NoCalls)
    /\ [][/\ (wpc \in IndefPcs => wpc' \in IndefPcs \cup {"w_exit", "w_aborted"})
          /\ (wpc = "w_exit" => wpc' \in {"w_exit", "w_returned"})
          /\ (wpc \in {"w_returned", "w_aborted"} => wpc' = wpc)]_vars

\* the last case of the registry is selected, run and cancelled
C15_Witness ==
    /\ IndefMode
    /\ opt.bench_idx = NumBench
    /\ wpc = "w_returned"
    /\ calls[Sel].run >= 1
    /\ i = 0

\* the options are rejected by parse_args
BadConfig == ParseArgs(opt, num_bench) # "ok"

\* C16: with an invalid burst size, round count or case index the worker is
\* never started: nothing is invoked, neither header nor report line is
\* printed, and the process exit status is non-zero.
C16_InvalidConfigRejected ==
    (opt.burst_size \notin 1..MAX_BURST \/ opt.rounds < 1
         \/ opt.bench_idx \notin 0..NumBench) =>
        /\ wpc = "w_none"
        /\ NoCallsMade
        /\ ~header
        /\ reports = <<>>
        /\ (mpc = "m_done" => exit_status \notin {0 - 1, EXIT_SUCCESS})

C16_Witness ==
    /\ opt.rounds = 0
    /\ opt.burst_size = BURST_SIZE
    /\ opt.bench_idx = 0
    /\ mpc = "m_done"
    /\ exit_status = EXIT_FAILURE


(***************************************************************************)
(* Pairing of init and term, and delivery of the cancellation request      *)
(***************************************************************************)
\* the case of slot s defines both an init and a term function
Paired(s) == HasInit(bench[s[2] + 1]) /\ HasTerm(bench[s[2] + 1])
\* init calls of slot s not yet followed by a term call
Open(s) == calls[s].init - calls[s].term
\* the worker is past the case loop
LoopLeft == wpc \in {"w_exit", "w_returned", "w_aborted"}

\* C19: every init of a case is followed by exactly one term of that case
\* before the next init is invoked and before the driver leaves the case
\* loop
C19_InitThenTermOnce ==
    /\ [](\A s \in Slots : Paired(s) => Open(s) \in {0, 1})
    /\ [](LoopLeft => \A s \in Slots : Paired(s) => Open(s) = 0)
    /\ [][(\E s \in Slots : calls'[s].init > calls[s].init)
             => \A t \in Slots : Paired(t) => Open(t) = 0]_vars

\* the worker is at a poll of the cancellation flag (lines 325 / 281)
AtPoll == wpc = "i_poll" \/ (wpc = "w_case" /\ j < num_bench)

\* C20: once a cancellation request has been delivered to the installed
\* handler, every poll of the worker reads "requested", and the flag, once
\* 1, stays 1
C20_RequestSeenByEveryLaterPoll ==
    /\ []((requested /\ AtPoll) => PollExit(exit_thread).seen)
    /\ [][exit_thread = 1 => exit_thread' = 1]_vars

(***************************************************************************)
(* The driver and the provisioning loops at rest                           *)
(***************************************************************************)
AtRest ==
    /\ opt = [rounds |-> 1, bench_idx |-> 0, burst_size |-> BURST_SIZE]
    /\ costs = ElapsedSet
    /\ bench = [k \in 1..NumBench |->
                   [max_rounds |-> 0, init |-> TRUE, term |-> TRUE]]
    /\ DriverStart
    /\ AllocIdle

(***************************************************************************)
(* The round limit of a case (lines 330-333) as a function of its inputs   *)
(***************************************************************************)
\* largest configured round count and largest per-case limit explored
MaxIn == 12

\* line 330 to line 333
CeilApply ==
    /\ cpc = "c_start"
    /\ limit' = EffectiveRounds(opt_rounds, case_max)
    /\ cpc' = "c_done"
    /\ UNCHANGED <<driverVars, allocVars, freeVars, divVars, burstVars, opt_rounds, case_max>>

InitCeil ==
    /\ AtRest
    /\ BurstIdle
    /\ DivIdle
    /\ cpc = "c_start"
    /\ opt_rounds \in 1..MaxIn
    /\ case_max \in 0..MaxIn
    /\ limit = 0
    /\ fpc = "f_idle"
    /\ event_tbl = <<>> /\ tbl0 = <<>>
    /\ tbl_num = 0 /\ fi = 0
    /\ freed = <<>>
    /\ fcalls = 0

NextCeil == CeilApply

SpecCeil == InitCeil /\ [][NextCeil]_vars

Min(a, b) == CHOOSE m \in {a, b} : m <= a /\ m <= b

\* C17: the round limit computed for a case is min(R, max_rounds) when the
\* case's max_rounds is positive and R when it is 0, for every R >= 1
C17_CeilingIsMin ==
    cpc = "c_done" =>
        limit = IF case_max > 0 THEN Min(opt_rounds, case_max) ELSE opt_rounds

\* the case's limit is positive and smaller than R, and has been applied
C17_Witness ==
    /\ cpc = "c_done"
    /\ case_max > 0
    /\ opt_rounds > case_max
    /\ limit = case_max

(***************************************************************************)
(* free_event_tbl (lines 538-546)                                          *)
(***************************************************************************)
EM_EVENT_UNDEF == 0
\* number of table entries
TblLen == 4
\* number of successive releases of the same range
MaxFreeCalls == 2

\* line 540
IsValid(e) == e # EM_EVENT_UNDEF

\* variant: the entry keeps its event after em_free()
Release_Keep(tbl, k) == tbl

\* line 542
Release(tbl, k) == [tbl EXCEPT ![k] = EM_EVENT_UNDEF]

\* a call of free_event_tbl(event_tbl, tbl_num)
FreeCall ==
    /\ fpc = "f_idle"
    /\ fcalls < MaxFreeCalls
    /\ fpc' = "f_loop"
    /\ fi' = 0
    /\ UNCHANGED <<driverVars, allocVars, ceilVars, divVars, burstVars, event_tbl, tbl_num, freed,
                   fcalls, tbl0>>

\* lines 539-544: one iteration of the loop
FreeIter ==
    /\ fpc = "f_loop"
    /\ fi < tbl_num
    /\ IF IsValid(event_tbl[fi + 1])
       THEN /\ freed' = [freed EXCEPT ![fi + 1] = @ + 1]
            /\ event_tbl' = Release(event_tbl, fi + 1)
       ELSE UNCHANGED <<freed, event_tbl>>
    /\ fi' = fi + 1
    /\ UNCHANGED <<driverVars, allocVars, ceilVars, divVars, burstVars, fpc, tbl_num, fcalls, tbl0>>

\* line 539: the loop condition fails and the function returns
FreeReturn ==
    /\ fpc = "f_loop"
    /\ fi >= tbl_num
    /\ fpc' = "f_idle"
    /\ fcalls' = fcalls + 1
    /\ UNCHANGED <<driverVars, allocVars, ceilVars, divVars, burstVars, event_tbl, tbl_num, fi,
                   freed, tbl0>>

\* entry k holds either no event or the event of handle k
InitFree ==
    /\ AtRest
    /\ BurstIdle
    /\ DivIdle
    /\ cpc = "c_idle"
    /\ opt_rounds = 1 /\ case_max = 0 /\ limit = 0
    /\ fpc = "f_idle"
    /\ event_tbl \in {t \in [1..TblLen -> 0..TblLen] :
                         \A k \in 1..TblLen : t[k] \in {EM_EVENT_UNDEF, k}}
    /\ tbl0 = event_tbl
    /\ tbl_num \in 0..TblLen
    /\ fi = 0
    /\ freed = [k \in 1..TblLen |-> 0]
    /\ fcalls = 0

NextFree ==
    \/ FreeCall
    \/ FreeIter
    \/ FreeReturn

SpecFree == InitFree /\ [][NextFree]_vars

\* C18: a release frees every valid entry of the range exactly once and
\* marks it EM_EVENT_UNDEF; from the end of the first release on, further
\* releases of the range free nothing and leave the table as it is
C18_ReleaseOnceAndIdempotent ==
    \A k \in DOMAIN event_tbl :
        /\ freed[k] <= 1
        /\ k > tbl_num => freed[k] = 0 /\ event_tbl[k] = tbl0[k]
        /\ fcalls >= 1 =>
              /\ freed[k] = IF k <= tbl_num /\ tbl0[k] # EM_EVENT_UNDEF
                            THEN 1 ELSE 0
              /\ k <= tbl_num => event_tbl[k] = EM_EVENT_UNDEF

\* two releases of a range holding both a valid and an invalid entry
C18_Witness ==
    /\ fpc = "f_idle"
    /\ fcalls = 2
    /\ \E k \in 1..tbl_num : tbl0[k] # EM_EVENT_UNDEF /\ freed[k] = 1
    /\ \E k \in 1..tbl_num : tbl0[k] = EM_EVENT_UNDEF


(***************************************************************************)
(* Rounds and cancellation                                                 *)
(***************************************************************************)
\* the worker takes a step from position p
WorkerStepFrom(p) == wpc = p /\ wpc' # p
Here == <<i, j>>

Half == 65536
Zero32 == <<0, 0>>
\* largest high half of the contiguous range of round counts explored
MaxHi == 66
\* round counts accepted by line 1410 (rounds >= 1), around 1, around
\* 4294967 = <<65, 35127>>, at 2^29 = <<8192, 0>> and at 2^32 - 1
RoundsIn ==
    (((0..MaxHi) \cup {8192, 65535}) \X {0, 1, 35127, 35128, 65535})
        \ {Zero32}
\* per-case limits: none (every entry of test_suite), and some set ones
CapsIn == {Zero32, <<0, 1>>, <<65, 35127>>, <<8192, 0>>}

GtU32(a, b) == a[1] > b[1] \/ (a[1] = b[1] /\ a[2] > b[2])

\* lines 330-333 on uint32_t values
EffectiveRounds32(rounds, cap) ==
    IF cap # Zero32 /\ GtU32(rounds, cap) THEN cap ELSE rounds

\* the product x * k as <<overflow, high, low>>, for k < 2^15
ExactMul(x, k) ==
    LET lo == x[2] * k
        hi == x[1] * k + (lo \div Half)
    IN  <<hi \div Half, hi % Half, lo % Half>>

\* line 382: uint32_t * int, computed modulo 2^32
MulU32(x, k) == <<ExactMul(x, k)[2], ExactMul(x, k)[3]>>

\* lines 330-333 and the divisor of line 382
DivApply ==
    /\ dpc = "d_start"
    /\ div32' = MulU32(EffectiveRounds32(rounds32, cap32), REPEAT_COUNT)
    /\ dpc' = "d_done"
    /\ UNCHANGED <<driverVars, allocVars, ceilVars, freeVars, burstVars, rounds32,
                   cap32>>

InitDiv ==
    /\ AtRest
    /\ BurstIdle
    /\ cpc = "c_idle"
    /\ opt_rounds = 1 /\ case_max = 0 /\ limit = 0
    /\ fpc = "f_idle"
    /\ event_tbl = <<>> /\ tbl0 = <<>>
    /\ tbl_num = 0 /\ fi = 0
    /\ freed = <<>>
    /\ fcalls = 0
    /\ dpc = "d_start"
    /\ rounds32 \in RoundsIn
    /\ cap32 \in CapsIn
    /\ div32 = Zero32

NextDiv == DivApply

SpecDiv == InitDiv /\ [][NextDiv]_vars

\* C22: for every accepted round count the divisor is the mathematical
\* product of the round limit and REPEAT_COUNT, and is not zero
C22_DivisorIsExactProduct ==
    dpc = "d_done" =>
        /\ div32 # Zero32
        /\ ExactMul(EffectiveRounds32(rounds32, cap32), REPEAT_COUNT)
              = <<0, div32[1], div32[2]>>


(***************************************************************************)
(* The two passes                                                          *)
(***************************************************************************)
CallKinds == {"init", "run", "term"}

\* C23: without cancellation and failure the measured pass makes the same
\* init, run and term invocations as the warm-up pass: while it runs it has
\* made no more invocations of any case than the warm-up pass made, when
\* it is over it has made as many, and only the measured pass prints
C23_PassesAlike ==
    /\ (NormalMode /\ ~cancel_seen /\ rets \subseteq {1}) =>
          \A k \in Cases : \A f \in CallKinds :
              calls[<<1, k>>][f] <= calls[<<0, k>>][f]
    /\ NormalRunOver =>
          \A k \in Cases : calls[<<1, k>>] = calls[<<0, k>>]
    /\ i = 0 => reports = <<>>

\* both passes are over, and a case with init and term ran two rounds in each
C23_Witness ==
    /\ NormalRunOver
    /\ \E k \in Cases :
          /\ calls[<<0, k>>] = [init |-> 2, run |-> 2, term |-> 2]
          /\ calls[<<1, k>>] = [init |-> 2, run |-> 2, term |-> 2]

\* C24: the first round of a case starts with a running total of 0, and the
\* total of a report line is made of the elapsed values of the measured-pass
\* rounds of its own case (checked where these rounds took the same time)
C24_TotalIsOwnRounds ==
    /\ (wpc = "w_init" /\ calls[Here].run = 0) => total = 0
    /\ \A n \in 1..Len(reports) : \A c \in ElapsedSet :
          reports[n].acc_set = {c} =>
              reports[n].total = c * calls[<<1, n - 1>>].run

\* the second case's line is printed, and its rounds took another time than
\* those of the first case
C24_Witness ==
    /\ Len(reports) >= 2
    /\ \E c \in ElapsedSet : reports[2].acc_set = {c}
    /\ reports[1].acc_set # reports[2].acc_set


(***************************************************************************)
(* Termination of the provisioning loops                                   *)
(***************************************************************************)
\* allocator calls the loop may still make
Rank == (num - num_events) * (MAX_RETRY + 1) - num_retries
\* the loop body runs once, i.e. the allocator is called once
AllocCall ==
    /\ apc = "a_loop"
    /\ <<num_events, num_retries>>' # <<num_events, num_retries>>
AllocOver == apc \in {"a_returned", "a_aborted"}

\* C25: whatever the allocator returns, the provisioning loop ends, by a
\* return or by an abort, after at most num * (MAX_RETRY + 1) allocator
\* calls: the loop starts with that many calls left, every call takes at
\* least one of them and none takes more than are left
C25_ProvisioningTerminates ==
    /\ [](apc = "a_loop" => Rank <= num * (MAX_RETRY + 1))
    /\ [][AllocCall => (Rank' < Rank /\ Rank' >= 0)]_vars
    /\ <>AllocOver

\* the loop has ended by the abort that follows MAX_RETRY + 1 empty returns
\* made after an allocation
C25_Witness ==
    /\ apc = "a_aborted"
    /\ num_events > 0
    /\ num_retries = MAX_RETRY + 1
    /\ Rank >= 0


(***************************************************************************)
(* Ways out of the indefinite loop                                         *)
(***************************************************************************)
\* C26: the indefinite loop is left only by a poll that reads the
\* cancellation flag as set, or by the abort that follows a run which did
\* not succeed; a poll that reads the flag as unset starts another cycle
C26_IndefLeavesOnlyOnCancel ==
    /\ [][(wpc \in IndefPcs /\ wpc' \notin IndefPcs) =>
             \/ wpc = "i_poll" /\ exit_thread # 0 /\ wpc' = "w_exit"
             \/ wpc = "i_term" /\ ~(ret_run > 0) /\ wpc' = "w_aborted"]_vars
    /\ [][(WorkerStepFrom("i_poll") /\ exit_thread = 0) => wpc' = "i_init"]_vars
    /\ []((IndefMode /\ calls[Sel].run > 0 /\ wpc \in {"w_exit", "w_returned"})
             => cancel_seen)

\* cycles whose runs all succeeded, ended by a poll that saw the request
C26_Witness ==
    /\ IndefMode
    /\ wpc = "w_exit"
    /\ cancel_seen
    /\ rets = {1}
    /\ calls[Sel].run >= 2


(***************************************************************************)
(* Termination of the normal mode                                          *)
(***************************************************************************)
RECURSIVE SumTo(_, _)
\* f[0] + ... + f[n - 1]
SumTo(f, n) == IF n = 0 THEN 0 ELSE f[n - 1] + SumTo(f, n - 1)
RunsOfPass(p) == SumTo([k \in Cases |-> calls[<<p, k>>].run], NumBench)
CeilingSum == SumTo([k \in Cases |-> Ceiling(k)], NumBench)
WorkerStarted == wpc # "w_none"
WorkerAtExit == wpc \in {"w_exit", "w_returned"}

\* C27: in normal mode no case runs more rounds in a pass than its round
\* limit, so that at most twice the sum of the limits are run, and the worker,
\* once started, reaches its exit point, whatever the cancellation flag and
\* the run results are
C27_NormalModeTerminates ==
    /\ [](NormalMode =>
            /\ \A s \in Slots : calls[s].run <= Ceiling(s[2])
            /\ RunsOfPass(0) + RunsOfPass(1) <= 2 * CeilingSum)
    /\ [](NormalMode /\ WorkerStarted => <>WorkerAtExit)

\* the worker is at its exit point after as many rounds as can be run
C27_Witness ==
    /\ NormalMode
    /\ wpc = "w_exit"
    /\ opt.rounds = MaxRounds
    /\ calls[<<0, 0>>].run = MaxRounds
    /\ calls[<<1, 0>>].run = MaxRounds


(***************************************************************************)
(* Teardown                                                                *)
(***************************************************************************)
WorkerReturned == wpc = "w_returned"
StatusProduced == mpc = "m_done"

\* C28: whenever the worker was started and has returned, it has terminated
\* its EM core; main deletes the pools and the queue only after the worker
\* has returned, and has deleted them when the exit status is produced
C28_TeardownBeforeStatus ==
    /\ [](WorkerReturned => ~core_inited)
    /\ []((mpc = "m_exit" /\ WorkerStarted) => WorkerReturned)
    /\ []((StatusProduced /\ WorkerStarted) =>
             /\ WorkerReturned
             /\ pools = {}
             /\ ~unsched_queue)
    /\ [][(mpc = "m_exit" /\ mpc' = "m_done") =>
             (pools' = {} /\ ~unsched_queue' /\ exit_status = 0 - 1
              /\ exit_status' # 0 - 1)]_vars


(***************************************************************************)
(* The fatal abort of the indefinite mode                                  *)
(***************************************************************************)
Aborted == wpc = "w_aborted"

\* C29: in indefinite mode a run that returns 0 is followed by the term of
\* its cycle and then by the abort; the abort comes from nowhere else, and
\* after it nothing is invoked and the worker stays where it is
C29_TermBeforeAbort ==
    /\ [][(WorkerStepFrom("i_term") /\ ret_run = 0) =>
             /\ wpc' = "w_aborted"
             /\ (bench[j + 1].term =>
                    calls'[Here].term = calls[Here].term + 1)]_vars
    /\ [][(~Aborted /\ Aborted') => (wpc = "i_term" /\ ret_run = 0)]_vars
    /\ [](Aborted =>
            /\ bench[j + 1].term => calls[Here].term = calls[Here].run
            /\ bench[j + 1].init => calls[Here].init = calls[Here].run)
    /\ [][Aborted => (Aborted' /\ calls' = calls /\ reports' = reports)]_vars

\* the second cycle of a case with init and term failed
C29_Witness ==
    /\ Aborted
    /\ ret_run = 0
    /\ calls[Here] = [init |-> 2, run |-> 2, term |-> 2]


(***************************************************************************)
(* Cancellation and the exit status                                        *)
(***************************************************************************)
\* a poll has seen the request and no run has failed
CancelledCleanly == cancel_seen /\ rets \subseteq {1}

\* C30: an execution stopped by cancellation in which every run succeeded
\* records no failure, and the status main derives for it is EXIT_SUCCESS
\* (a failing teardown call of main apart); in normal mode its report lines
\* are those of the cases completed in the measured pass, which are the
\* first cases of the registry
C30_CancellationIsNoFailure ==
    /\ [](CancelledCleanly =>
            /\ bench_failed = 0
            /\ mpc \in {"m_exit", "m_done"} => MainStatus(mret) = EXIT_SUCCESS
            /\ StatusProduced => exit_status \in {EXIT_SUCCESS, EXIT_FAILURE})
    /\ [][(CancelledCleanly /\ mpc = "m_exit" /\ mpc' = "m_done"
           /\ exit_status' # EXIT_FAILURE) => exit_status' = EXIT_SUCCESS]_vars
    /\ []((NormalMode /\ CancelledCleanly) =>
            /\ \A n \in 1..Len(reports) :
                  reports[n].idx = n /\ completed[<<1, n - 1>>] = 1
            /\ \A k \in Cases :
                  k >= Len(reports) => completed[<<1, k>>] = 0)

\* cancelled in the measured pass after the first case: one report line,
\* status 0
C30_Witness ==
    /\ NormalMode
    /\ CancelledCleanly
    /\ StatusProduced
    /\ exit_status = EXIT_SUCCESS
    /\ Len(reports) = 1
    /\ calls[<<1, 1>>].run = 0


(***************************************************************************)
(* Table indices of the burst cases: a *_multi case with its init          *)
(* (create_*_multi, lines 497-536), its run function (the loop of lines    *)
(* 609-611, of the same shape in the other *_multi functions) and its term *)
(* (free_events_multi, lines 553-556)                                      *)
(***************************************************************************)
\* line 31
MAX_EVENTS == REPEAT_COUNT * MAX_BURST
\* burst sizes given on the command line
BurstIn == 0..(MAX_BURST + 1)

\* lines 499 / 555: number of table entries of a burst case
BurstEvents(b) == REPEAT_COUNT * b
\* line 610: &event_tbl[i * burst_size]
BurstBase(n, b) == n * b

\* lines 1404-1408
BurstParse ==
    /\ bpc = "b_parse"
    /\ bpc' = IF ParseArgs(opt, num_bench) = "ok" THEN "b_init" ELSE "b_rejected"
    /\ UNCHANGED <<driverVars, allocVars, ceilVars, freeVars, divVars, bi, blo,
                   bhi>>

\* lines 497-503: entries 0 .. num_events - 1 are written
BurstInit ==
    /\ bpc = "b_init"
    /\ blo' = 0
    /\ bhi' = BurstEvents(opt.burst_size) - 1
    /\ bi' = 0
    /\ bpc' = "b_run"
    /\ UNCHANGED <<driverVars, allocVars, ceilVars, freeVars, divVars>>

\* lines 609-611: one iteration, burst_size entries from i * burst_size on
BurstRun ==
    /\ bpc = "b_run"
    /\ bi < REPEAT_COUNT
    /\ blo' = BurstBase(bi, opt.burst_size)
    /\ bhi' = BurstBase(bi, opt.burst_size) + opt.burst_size - 1
    /\ bi' = bi + 1
    /\ UNCHANGED <<driverVars, allocVars, ceilVars, freeVars, divVars, bpc>>

\* line 609: the loop ends
BurstRunEnd ==
    /\ bpc = "b_run"
    /\ ~(bi < REPEAT_COUNT)
    /\ bpc' = "b_term"
    /\ UNCHANGED <<driverVars, allocVars, ceilVars, freeVars, divVars, bi, blo,
                   bhi>>

\* lines 553-556 with 538-546: entries 0 .. num - 1 are read and written
BurstTerm ==
    /\ bpc = "b_term"
    /\ blo' = 0
    /\ bhi' = BurstEvents(opt.burst_size) - 1
    /\ bpc' = "b_done"
    /\ UNCHANGED <<driverVars, allocVars, ceilVars, freeVars, divVars, bi>>

InitBurst ==
    /\ opt \in [rounds : {1}, bench_idx : {0}, burst_size : BurstIn]
    /\ bench = [k \in 1..NumBench |->
                   [max_rounds |-> 0, init |-> TRUE, term |-> TRUE]]
    /\ costs = ElapsedSet
    /\ DriverStart
    /\ AllocIdle
    /\ DivIdle
    /\ cpc = "c_idle"
    /\ opt_rounds = 1 /\ case_max = 0 /\ limit = 0
    /\ fpc = "f_idle"
    /\ event_tbl = <<>> /\ tbl0 = <<>>
    /\ tbl_num = 0 /\ fi = 0
    /\ freed = <<>>
    /\ fcalls = 0
    /\ bpc = "b_parse"
    /\ bi = 0 /\ blo = 0 /\ bhi = 0

NextBurst ==
    \/ BurstParse
    \/ BurstInit
    \/ BurstRun
    \/ BurstRunEnd
    \/ BurstTerm

SpecBurst == InitBurst /\ [][NextBurst]_vars

\* C31: only burst sizes 1..MAX_BURST get past the validation, and for
\* these every table index that the init, run and term of a burst case
\* use is at least 0 and below MAX_EVENTS
C31_BurstIndicesInBounds ==
    /\ bpc \in {"b_init", "b_run", "b_term", "b_done"} =>
          opt.burst_size \in 1..MAX_BURST
    /\ 0 <= blo
    /\ blo <= bhi
    /\ bhi < MAX_EVENTS

\* the last iteration of a run with the largest burst size has used the last
\* entry of the table
C31_Witness ==
    /\ bpc = "b_run"
    /\ opt.burst_size = MAX_BURST
    /\ bi = REPEAT_COUNT
    /\ bhi = MAX_EVENTS - 1

====
